---- MODULE Spec2Model ----
(***************************************************************************)
(* validate_phase_encoding.py: check, and with --fix repair, the           *)
(* 'PhaseEncodingDirection' field of the DWI JSON sidecars of a BIDS tree. *)
(*                                                                         *)
(* A Python string is a sequence of one-character strings.  A JSON value   *)
(* held in a sidecar's field is a record [t, v]: t is its JSON type and v  *)
(* the characters of a string, the digits of a number, the literal of a    *)
(* boolean, and for an array or an object <<>> when it is empty and        *)
(* <<"e">> when it is not.  Python's None and JSON's null are the same     *)
(* value, as they are after json.loads.                                    *)
(*                                                                         *)
(* The text of a file is a record [fmt, top, pairs]: fmt is its layout     *)
(* ("compact", "indent2", or "malformed" for text json.loads rejects), top *)
(* the type of the top-level JSON value, pairs the key/value pairs of a    *)
(* top-level object in the order they are written; the keys of a text are  *)
(* distinct.                                                               *)
(***************************************************************************)
EXTENDS Integers, Sequences, FiniteSets

\* ------------------------------------------------------------------ bounds
MaxLen == 3
MaxFiles == 2
MaxRuns == 2

\* ------------------------------------------------------------- JSON values
Str(s) == [t |-> "str", v |-> s]
None == [t |-> "null", v |-> <<>>]
Num(d) == [t |-> "num", v |-> <<d>>]
Inf == [t |-> "num", v |-> <<"inf">>]
JTrue == [t |-> "bool", v |-> <<"true">>]
JFalse == [t |-> "bool", v |-> <<"false">>]
EmptyArray == [t |-> "array", v |-> <<>>]
SomeArray == [t |-> "array", v |-> <<"e">>]
EmptyObject == [t |-> "object", v |-> <<>>]
SomeObject == [t |-> "object", v |-> <<"e">>]

\* an uncaught Python exception, as the value of the expression raising it
Raise(e) == [t |-> "raise", v |-> <<e>>]

\* Python truth value of a JSON value (the left operand of `or`)
Truthy(x) ==
    CASE x.t = "str" -> x.v # <<>>
      [] x.t = "null" -> FALSE
      [] x.t = "num" -> x.v # <<"0">>
      [] x.t = "bool" -> x.v = <<"true">>
      [] OTHER -> x.v # <<>>

\* list and dict have no __hash__: testing them against a set raises TypeError
Hashable(x) == x.t \notin {"array", "object"}

\* ------------------------------------------------------------- Python str
LowerCase ==
    <<"a", "b", "c", "d", "e", "f", "g", "h", "i", "j", "k", "l", "m",
      "n", "o", "p", "q", "r", "s", "t", "u", "v", "w", "x", "y", "z">>

UpperCase ==
    <<"A", "B", "C", "D", "E", "F", "G", "H", "I", "J", "K", "L", "M",
      "N", "O", "P", "Q", "R", "S", "T", "U", "V", "W", "X", "Y", "Z">>

UpperChar(c) ==
    IF \E n \in 1..Len(LowerCase) : LowerCase[n] = c
    THEN UpperCase[CHOOSE n \in 1..Len(LowerCase) : LowerCase[n] = c]
    ELSE c

\* str.upper()
upper(s) == [n \in 1..Len(s) |-> UpperChar(s[n])]

\* `sub in s` on strings
Contains(s, sub) ==
    \E n \in 1..(Len(s) - Len(sub) + 1) : SubSeq(s, n, n + Len(sub) - 1) = sub

\* -------------------------------------------------------------- the dict
PED == "PhaseEncodingDirection"
DIR == "dir"
ECHO == "EchoTime"

HasKey(meta, key) == \E n \in 1..Len(meta) : meta[n].k = key

\* dict.get(key): the value, or None when the key is absent
get(meta, key) ==
    IF HasKey(meta, key)
    THEN meta[CHOOSE n \in 1..Len(meta) : meta[n].k = key].val
    ELSE None

\* meta[key] = val: replaced in place, or appended as the last key
SetItem(meta, key, val) ==
    IF HasKey(meta, key)
    THEN [n \in 1..Len(meta) |->
            IF meta[n].k = key THEN [k |-> key, val |-> val] ELSE meta[n]]
    ELSE Append(meta, [k |-> key, val |-> val])

\* json.loads on a value: a number literal beyond the range of a double
\* (1e400) becomes the float inf, as does the literal Infinity, which
\* json.loads accepts though it is no JSON
FromJSON(x) == IF x \in {Num("1e400"), Num("Infinity")} THEN Inf ELSE x

\* json.dumps on a value: allow_nan is left True, so inf is written Infinity
ToJSON(x) == IF x = Inf THEN Num("Infinity") ELSE x

\* json.loads(text) on the text of an object: the dict, in the order written
loads(text) ==
    [n \in 1..Len(text.pairs) |->
        [k |-> text.pairs[n].k, val |-> FromJSON(text.pairs[n].val)]]

\* json.dumps(meta, indent=2)
dumps(meta) ==
    [fmt |-> "indent2", top |-> "object",
     pairs |-> [n \in 1..Len(meta) |-> [k |-> meta[n].k, val |-> ToJSON(meta[n].val)]]]

\* what an interrupted write_text leaves: the file was truncated on open, and
\* no proper prefix of a dumped object is JSON
Truncated == [fmt |-> "malformed", top |-> "object", pairs |-> <<>>]

VALID_DIRECTIONS ==
    {Str(<<"i">>), Str(<<"i", "-">>), Str(<<"j">>), Str(<<"j", "-">>),
     Str(<<"k">>), Str(<<"k", "-">>)}

\* ------------------------------------------------- infer_direction_from_dir
\* meta.get("dir") or path.name
HintToken(meta, name) ==
    IF Truthy(get(meta, DIR)) THEN get(meta, DIR) ELSE Str(name)

FirstMatch_APfirst(name) ==
    IF Contains(name, <<"A", "P">>) THEN Str(<<"j">>)
    ELSE IF Contains(name, <<"P", "A">>) THEN Str(<<"j", "-">>)
    ELSE IF Contains(name, <<"R", "L">>) THEN Str(<<"i">>)
    ELSE IF Contains(name, <<"L", "R">>) THEN Str(<<"i", "-">>)
    ELSE IF Contains(name, <<"S", "I">>) THEN Str(<<"k">>)
    ELSE IF Contains(name, <<"I", "S">>) THEN Str(<<"k", "-">>)
    ELSE None

FirstMatch_signFirst(name) ==
    IF Contains(name, <<"P", "A">>) THEN Str(<<"-", "j">>)
    ELSE IF Contains(name, <<"A", "P">>) THEN Str(<<"j">>)
    ELSE IF Contains(name, <<"R", "L">>) THEN Str(<<"i">>)
    ELSE IF Contains(name, <<"L", "R">>) THEN Str(<<"-", "i">>)
    ELSE IF Contains(name, <<"S", "I">>) THEN Str(<<"k">>)
    ELSE IF Contains(name, <<"I", "S">>) THEN Str(<<"-", "k">>)
    ELSE None

\* the chain of `if ... in name: return ...` on the uppercased token
FirstMatch(name) ==
    IF Contains(name, <<"P", "A">>) THEN Str(<<"j", "-">>)
    ELSE IF Contains(name, <<"A", "P">>) THEN Str(<<"j">>)
    ELSE IF Contains(name, <<"R", "L">>) THEN Str(<<"i">>)
    ELSE IF Contains(name, <<"L", "R">>) THEN Str(<<"i", "-">>)
    ELSE IF Contains(name, <<"S", "I">>) THEN Str(<<"k">>)
    ELSE IF Contains(name, <<"I", "S">>) THEN Str(<<"k", "-">>)
    ELSE None

\* only str has .upper(): a truthy number, boolean, array or object under
\* 'dir' raises AttributeError
infer_direction_from_dir(meta, name) ==
    IF HintToken(meta, name).t # "str"
    THEN Raise("AttributeError")
    ELSE FirstMatch(upper(HintToken(meta, name).v))

\* ------------------------------------------------------------ validate_json
\* what one call does: ret is the returned bool or "raise" for an exception
\* that leaves the function, outcome the report printed, text the content of
\* the file after the call, wrote whether write_text completed
Result(ret, outcome, text, wrote) ==
    [ret |-> ret, outcome |-> outcome, text |-> text, wrote |-> wrote]

OnValid_normalises(text, meta) == Result("True", "Valid", dumps(meta), TRUE)

\* ped in VALID_DIRECTIONS: report and return True
OnValid(text, meta) == Result("True", "Valid", text, FALSE)

\* the fix branch; wr is what write_text does: "ok", "denied" (the open fails,
\* the file is untouched) or "torn" (it fails after the file was truncated)
Fix(text, meta, name, wr) ==
    LET guess == infer_direction_from_dir(meta, name)
    IN  IF guess.t = "raise"
        THEN Result("raise", "Fault", text, FALSE)
        ELSE IF Truthy(guess)
        THEN CASE wr = "ok" ->
                    Result("True", "InvalidFixed",
                           dumps(SetItem(meta, PED, guess)), TRUE)
               [] wr = "denied" -> Result("raise", "Fault", text, FALSE)
               [] OTHER -> Result("raise", "Fault", Truncated, FALSE)
        ELSE Result("False", "InvalidUninferable", text, FALSE)

\* rd is what read_text does: "ok" or "fail"
validate_json(text, name, fix, rd, wr) ==
    IF rd = "fail" \/ text.fmt = "malformed"
    THEN Result("False", "ParseError", text, FALSE)
    ELSE IF text.top # "object"
    THEN Result("raise", "Fault", text, FALSE)
    ELSE IF ~Hashable(get(loads(text), PED))
    THEN Result("raise", "Fault", text, FALSE)
    ELSE IF get(loads(text), PED) \in VALID_DIRECTIONS
    THEN OnValid(text, loads(text))
    ELSE IF fix
    THEN Fix(text, loads(text), name, wr)
    ELSE Result("False", "InvalidUnfixed", text, FALSE)

\* ------------------------------------------------------------------- state
VARIABLES
    names,        \* path.name of each file rglob returns, in its order
    disk,         \* the text of each of these files on disk
    fix,          \* args.fix, the same in every invocation
    run,          \* the number of the running invocation
    pc,           \* where main is: "start", "loop" or "exited"
    idx,          \* the position of the for loop in json_files
    n_valid,      \* main's counter
    log,          \* the validate_json calls of this invocation, in order:
                  \* the file, what read_text and write_text did (rd, wr),
                  \* the result, the file's text before and after
    summary,      \* the 'Summary: X/N valid' lines printed by this invocation
    exit_status,  \* the exit status of the process, -1 while it runs
    prevLog,      \* log and the final disk of the invocation before
    prevDisk

vars ==
    <<names, disk, fix, run, pc, idx, n_valid, log, summary, exit_status,
      prevLog, prevDisk>>

\* json_files: a file is named by its position in rglob's result
json_files == [n \in 1..Len(names) |-> n]

\* ------------------------------------------------------------- the trees
Suffix == <<".", "j", "s", "o", "n">>

Alphabet == {"P", "A", "R", "L", "S", "I"}

Tokens == UNION {[1..n -> Alphabet] : n \in 0..MaxLen}

Absent == [t |-> "absent", v |-> <<>>]

Field(key, x) == IF x = Absent THEN <<>> ELSE <<[k |-> key, val |-> x]>>

Object(fmt, dir, ped, echo) ==
    [fmt |-> fmt, top |-> "object",
     pairs |-> Field(DIR, dir) \o Field(PED, ped) \o Field(ECHO, echo)]

NonObject(top) == [fmt |-> "compact", top |-> top, pairs |-> <<>>]

Malformed == Truncated

File(text, stem) == [text |-> text, name |-> stem \o Suffix]

PedValues ==
    VALID_DIRECTIONS \cup
    {Absent, Str(<<"x">>), Str(<<"J">>), Str(<<>>), Num("5"), Num("0"), JTrue,
     None, EmptyArray, SomeArray, EmptyObject, SomeObject}

DirValues ==
    {Absent, Str(<<>>), Str(<<"P", "A">>), Str(<<"a", "p">>), Str(<<"p", "A", "p">>),
     Str(<<"R", "L", "A", "P">>), Str(<<"I", "S", "L", "R">>),
     Str(<<"x", "y">>), Num("5"), Num("0"), JTrue, JFalse, None, EmptyArray,
     SomeArray, SomeObject}

Stems == {<<"x">>, <<"A", "P">>, <<"s", "i", "s">>}

\* every type of the two fields the code reads, under each kind of name
TypedFiles ==
    {File(Object("compact", dir, ped, Num("5")), stem) :
        dir \in DirValues, ped \in PedValues, stem \in Stems}

\* every short token, as the 'dir' key and as the file name
TokenFiles ==
    {File(Object("compact", Str(tok), Absent, Num("5")), <<"x">>) : tok \in Tokens}
    \cup {File(Object("compact", Absent, Str(<<"x">>), Absent), tok) : tok \in Tokens}

OtherFiles ==
    {File(NonObject(top), <<"A", "P">>) :
        top \in {"array", "string", "number", "bool", "null"}}
    \cup {File(Malformed, <<"A", "P">>)}
    \cup {File(Object(fmt, Absent, ped, Num("1e400")), <<"A", "P">>) :
            fmt \in {"compact", "indent2"},
            ped \in {Absent, Str(<<"x">>), Str(<<"j">>)}}

\* one file of each outcome, for the trees of several files
MixedFiles ==
    {File(Object("compact", Absent, Str(<<"j", "-">>), Num("5")), <<"x">>),
     File(Object("compact", Str(<<"P", "A">>), Absent, Num("5")), <<"x">>),
     File(Object("indent2", Absent, Num("5"), Absent), <<"a", "p">>),
     File(Object("compact", Absent, Str(<<"x">>), Absent), <<"x">>),
     File(Malformed, <<"P", "A">>),
     File(NonObject("array"), <<"P", "A">>)}

Trees ==
    {<<f>> : f \in TypedFiles \cup TokenFiles \cup OtherFiles}
    \cup UNION {[1..n -> MixedFiles] : n \in 0..MaxFiles}

Init ==
    /\ \E tree \in Trees :
        /\ names = [n \in 1..Len(tree) |-> tree[n].name]
        /\ disk = [n \in 1..Len(tree) |-> tree[n].text]
    /\ fix \in BOOLEAN
    /\ run = 1
    /\ pc = "start"
    /\ idx = 0
    /\ n_valid = 0
    /\ log = <<>>
    /\ summary = <<>>
    /\ exit_status = -1
    /\ prevLog = <<>>
    /\ prevDisk = <<>>

\* --------------------------------------------------------------------- main
NoFiles_never(files) == FALSE

\* not json_files
NoFiles(files) == files = <<>>

Tally_always(n, ret) == n + 1

\* if validate_json(...): n_valid += 1
Tally(n, ret) == IF ret = "True" THEN n + 1 ELSE n

\* rglob, then sys.exit(1) on an empty list, else the header and n_valid = 0
Discover ==
    /\ pc = "start"
    /\ IF NoFiles(json_files)
       THEN /\ pc' = "exited"
            /\ exit_status' = 1
            /\ UNCHANGED <<idx, n_valid>>
       ELSE /\ pc' = "loop"
            /\ idx' = 1
            /\ n_valid' = 0
            /\ UNCHANGED exit_status
    /\ UNCHANGED <<names, disk, fix, run, log, summary, prevLog, prevDisk>>

\* one iteration of the for loop: validate_json(js, fix=args.fix), whose
\* read_text does rd and whose write_text does wr; an exception that leaves
\* validate_json leaves main too, and the interpreter exits with status 1
Iterate(rd, wr) ==
    /\ LET js == json_files[idx]
           r == validate_json(disk[js], names[js], fix, rd, wr)
       IN  /\ disk' = [disk EXCEPT ![js] = r.text]
           /\ log' = Append(log, [file |-> js, ret |-> r.ret, outcome |-> r.outcome,
                                  before |-> disk[js], after |-> r.text,
                                  wrote |-> r.wrote, rd |-> rd, wr |-> wr])
           /\ IF r.ret = "raise"
              THEN /\ pc' = "exited"
                   /\ exit_status' = 1
                   /\ UNCHANGED <<idx, n_valid>>
              ELSE /\ n_valid' = Tally(n_valid, r.ret)
                   /\ idx' = idx + 1
                   /\ UNCHANGED <<pc, exit_status>>
    /\ UNCHANGED <<names, fix, run, summary, prevLog, prevDisk>>

\* the loop has a file left
Looping == pc = "loop" /\ idx <= Len(json_files)

\* the call about to be made reaches write_text
Writes ==
    validate_json(disk[json_files[idx]], names[json_files[idx]], fix, "ok", "ok").wrote

\* an iteration in which read_text and write_text succeed
Validate == Looping /\ Iterate("ok", "ok")

\* an iteration whose read_text raises (OSError, UnicodeDecodeError)
ValidateReadFails == Looping /\ Iterate("fail", "ok")

\* an iteration whose write_text raises before it has touched the file
ValidateWriteDenied == Looping /\ Writes /\ Iterate("ok", "denied")

\* an iteration whose write_text raises after it has truncated the file
ValidateWriteTorn == Looping /\ Writes /\ Iterate("ok", "torn")

\* the loop is over: the summary line (and the closing line with --fix), and
\* main returns
Summary ==
    /\ pc = "loop"
    /\ idx > Len(json_files)
    /\ summary' = Append(summary, <<n_valid, Len(json_files)>>)
    /\ pc' = "exited"
    /\ exit_status' = 0
    /\ UNCHANGED <<names, disk, fix, run, idx, n_valid, log, prevLog, prevDisk>>

\* the tool is run again, with the same arguments, on the tree the last
\* invocation left
Rerun ==
    /\ pc = "exited"
    /\ run < MaxRuns
    /\ run' = run + 1
    /\ pc' = "start"
    /\ idx' = 0
    /\ n_valid' = 0
    /\ log' = <<>>
    /\ summary' = <<>>
    /\ exit_status' = -1
    /\ prevLog' = log
    /\ prevDisk' = disk
    /\ UNCHANGED <<names, disk, fix>>

Next ==
    \/ Discover
    \/ Validate
    \/ ValidateReadFails
    \/ ValidateWriteDenied
    \/ ValidateWriteTorn
    \/ Summary
    \/ Rerun

Spec == Init /\ [][Next]_vars

\* the same program where every read_text and write_text succeeds
NextReliable ==
    \/ Discover
    \/ Validate
    \/ Summary
    \/ Rerun

SpecReliable == Init /\ [][NextReliable]_vars

\* ------------------------------------------------------------ properties
Calls == {log[n] : n \in 1..Len(log)}

\* the six codes of the enumeration, written out
SixCodes ==
    {<<"i">>, <<"i", "-">>, <<"j">>, <<"j", "-">>, <<"k">>, <<"k", "-">>}

\* the text was read and is a JSON object
ParsedObject(e) == e.rd = "ok" /\ e.before.fmt # "malformed" /\ e.before.top = "object"

Keys(text) == {text.pairs[n].k : n \in 1..Len(text.pairs)}

\* the values a text holds under a key (one, unless the key is repeated)
ValuesAt(text, key) ==
    {text.pairs[n].val : n \in {m \in 1..Len(text.pairs) : text.pairs[m].k = key}}

\* the text is JSON: json.loads takes it, and it holds no Infinity
IsJSON(text) ==
    /\ text.fmt # "malformed"
    /\ \A n \in 1..Len(text.pairs) : text.pairs[n].val # Num("Infinity")

HoldsCode(text) ==
    /\ text.fmt # "malformed"
    /\ text.top = "object"
    /\ \E c \in SixCodes : ValuesAt(text, PED) = {Str(c)}

Untouched(e) == ~e.wrote /\ e.after = e.before

\* the ordered rule list of the inference: the first code the uppercased
\* token contains decides
Codes == <<<<"P", "A">>, <<"A", "P">>, <<"R", "L">>, <<"L", "R">>, <<"S", "I">>, <<"I", "S">>>>

Directions == <<<<"j", "-">>, <<"j">>, <<"i">>, <<"i", "-">>, <<"k">>, <<"k", "-">>>>

Matches(token) == {n \in 1..Len(Codes) : Contains(upper(token), Codes[n])}

FirstCode(token) == CHOOSE n \in Matches(token) : \A m \in Matches(token) : n <= m

\* the hint of a call: the 'dir' string when there is a non-empty one, the
\* leaf name when 'dir' is missing or empty (as are "", null, 0, false, [] and
\* {} to Python's `or`); a call has no hint when 'dir' is any other value
\* that is no string
DirOf(e) == IF DIR \in Keys(e.before) THEN get(e.before.pairs, DIR) ELSE None

HasHint(e) == DirOf(e).t = "str" \/ ~Truthy(DirOf(e))

HintOf(e) ==
    IF DirOf(e).t = "str" /\ DirOf(e).v # <<>> THEN DirOf(e).v ELSE names[e.file]

\* the call reaches the inference: --fix, a parsed object, and a target field
\* that is missing or a value (not an array or object) outside the enum
Infers(e) ==
    /\ fix
    /\ ParsedObject(e)
    /\ ~HoldsCode(e.before)
    /\ \A x \in ValuesAt(e.before, PED) : x.t \notin {"array", "object"}
    /\ HasHint(e)

\* C1: a call on a file that parses to an object whose PhaseEncodingDirection
\* is one of the six codes returns True with the report Valid, with --fix and
\* without, and writes nothing: the file's text after the call is its text
\* before.
C1_ValidUntouched ==
    \A e \in Calls :
        (ParsedObject(e) /\ HoldsCode(e.before)) =>
            /\ e.ret = "True"
            /\ e.outcome = "Valid"
            /\ Untouched(e)
            /\ disk[e.file] = e.before

C1_Witness ==
    /\ fix
    /\ \E e \in Calls :
        /\ ParsedObject(e)
        /\ ValuesAt(e.before, PED) = {Str(<<"k", "-">>)}
        /\ e.outcome = "Valid"

\* C2: without --fix, a call on a file that parses as JSON and whose target
\* field is missing or holds a value outside the six codes returns False with
\* the report Invalid-Unfixed and leaves the file as it was, whatever 'dir'
\* and the file name are.
C2_UnfixedUntouched ==
    \A e \in Calls :
        (~fix /\ ParsedObject(e) /\ ~HoldsCode(e.before)) =>
            /\ e.ret = "False"
            /\ e.outcome = "InvalidUnfixed"
            /\ Untouched(e)

\* C3: a call that rewrites the file (Invalid-Fixed) leaves a JSON object with
\* the keys it had before and PhaseEncodingDirection, each once; every other
\* key keeps its value, and PhaseEncodingDirection holds the inferred code.
C3_RewriteKeepsKeys ==
    \A e \in Calls :
        e.outcome = "InvalidFixed" =>
            /\ IsJSON(e.after)
            /\ e.after.top = "object"
            /\ Keys(e.after) = Keys(e.before) \cup {PED}
            /\ Len(e.after.pairs) = Cardinality(Keys(e.after))
            /\ \A key \in Keys(e.before) \ {PED} :
                    ValuesAt(e.after, key) = ValuesAt(e.before, key)
            /\ Matches(HintOf(e)) # {}
            /\ ValuesAt(e.after, PED) = {Str(Directions[FirstCode(HintOf(e))])}
            /\ disk[e.file] = e.after

C5_NothingEscapes ==
    \A e \in Calls :
        /\ e.ret # "raise"
        /\ (e.wr # "ok" => (e.ret = "False" /\ e.after.fmt # "malformed"))

\* C6: when rglob finds no file, main exits with a non-zero status, having
\* called validate_json on nothing and printed no summary line.
C6_NoFilesIsFatal ==
    json_files = <<>> =>
        /\ log = <<>>
        /\ summary = <<>>
        /\ exit_status # 0
        /\ (pc = "exited" => exit_status = 1)

C6_Witness == json_files = <<>> /\ pc = "exited" /\ exit_status = 1

\* C7: when rglob finds a file, a finished run has validated every file once,
\* in turn, printed one summary line and exited with status zero; stated here
\* for the runs in which every read_text and write_text succeeded.
C7_RunCompletes ==
    (/\ json_files # <<>>
     /\ pc = "exited"
     /\ \A e \in Calls : e.rd = "ok" /\ e.wr = "ok") =>
        /\ exit_status = 0
        /\ Len(summary) = 1
        /\ Len(log) = Len(json_files)
        /\ \A n \in 1..Len(log) : log[n].file = json_files[n]

\* C8: n_valid counts the calls so far whose report is Valid or Invalid-Fixed
\* and no others, it lies between 0 and the number of files, the summary
\* prints it over the number of files, and after a summary every file
\* counted holds one of the six codes on disk.
C8_TallyExact ==
    /\ n_valid = Cardinality({n \in 1..Len(log) :
                                log[n].outcome \in {"Valid", "InvalidFixed"}})
    /\ 0 <= n_valid
    /\ n_valid <= Len(json_files)
    /\ \A n \in 1..Len(summary) :
        /\ summary[n] = <<n_valid, Len(json_files)>>
        /\ \A e \in Calls :
                e.outcome \in {"Valid", "InvalidFixed"} => HoldsCode(disk[e.file])

C8_Witness ==
    /\ summary = <<<<1, 2>>>>
    /\ \E e \in Calls : e.outcome = "ParseError"
    /\ \E e \in Calls : e.outcome = "InvalidFixed"

\* C9: a run with --fix on the tree the run with --fix before it left writes
\* no file and changes no file, and reports Valid every file the run before
\* reported Invalid-Fixed or Valid (when read_text and write_text succeed in
\* both runs).
C9_FixIdempotent ==
    (fix /\ run > 1) =>
        /\ disk = prevDisk
        /\ \A n \in 1..Len(log) :
            /\ Untouched(log[n])
            /\ n <= Len(prevLog)
            /\ prevLog[n].file = log[n].file
            /\ (prevLog[n].outcome \in {"Valid", "InvalidFixed"} =>
                    log[n].outcome = "Valid")

C9_Witness ==
    /\ fix
    /\ run > 1
    /\ \E n \in 1..Len(log) :
        /\ prevLog[n].outcome = "InvalidFixed"
        /\ log[n].outcome = "Valid"

\* C10: a target field that is present and is no string is handled as a
\* string outside the six codes is: Invalid-Unfixed without --fix, inference
\* with --fix, and never a fault.
C10_NonStringIsInvalid ==
    \A e \in Calls :
        (/\ ParsedObject(e)
         /\ \E x \in ValuesAt(e.before, PED) : x.t # "str"
         /\ HasHint(e)
         /\ e.wr = "ok") =>
            /\ ~fix => e.outcome = "InvalidUnfixed"
            /\ fix => e.outcome \in {"InvalidFixed", "InvalidUninferable"}

====
